---- MODULE Spec2Model ----
(***************************************************************************)
(* A model of commitbot: the IRC client (commitbot/irc_bot.py), its SASL   *)
(* sub-protocol, the reconnecting factory, and the GitHub webhook resource *)
(* (commitbot/http_hooks.py).                                              *)
(*                                                                         *)
(* Strings that the code inspects character by character (SASL data) are   *)
(* sequences of character codes; other strings are TLA+ strings.           *)
(***************************************************************************)
EXTENDS Integers, Sequences, FiniteSets, TLC

VARIABLES
    \* ---- configuration (configparser section 'irc') ----
    config,          \* [sasl_user, sasl_pass, channels, filter]
    \* ---- one CommitBot per connection id ----
    state,           \* transport: "unborn" | "open" | "closing" | "lost"
    channelsToJoin,  \* CommitBot.channelsToJoin
    channelsJoined,  \* CommitBot.channelsJoined
    saslTimeout,     \* CommitBot.saslTimeout: None or the id of a DelayedCall
    saslData,        \* CommitBot.saslData: None or a string
    attemptedNick,   \* IRCClient._attemptedNick, as the number of '_' appended
    signed,          \* history: signedOn has been called on the connection
    wire,            \* history: the lines sent (">>") and the JOIN/KICK lines
                     \* handled ("<<") as IRC_DEBUG would log them, in order,
                     \* one log per kind of line: [reg, sasl, join, msg]
    rcvd,            \* history: [sasl, kick, nick], the capability/SASL lines,
                     \* kicks and nick collisions handled so far
    \* ---- reactor ----
    timers,          \* pending DelayedCalls of the protocols
    reactor,         \* "running" | "stopping" | "stopped"
    \* ---- CommitBotFactory ----
    protocols,       \* CommitBotFactory.protocols
    connector,       \* "connecting" | "connected" | "waiting" (reconnect timer)
    delay,           \* ReconnectingClientFactory.delay
    retries,         \* ReconnectingClientFactory.retries
    lastNotify,      \* history: the arguments of the last factory.notify call
    \* ---- SASL chunking harness ----
    tx,              \* sending half: [payload, sent, lines]
    rx,              \* receiving half: [saslData, fed, msgs]
    \* ---- webhook ----
    hook,            \* [secret, phase, req, resp, calls]
    \* ---- formatter ----
    fmt              \* [tasks, out]: the format coroutines started so far
                     \* (history in each: shortened, whether shorten was
                     \* called, and shorten, what it ended with) and,
                     \* history, the irc.notify calls they made, in order

vars == <<config, state, channelsToJoin, channelsJoined, saslTimeout, saslData,
          attemptedNick, signed, wire, rcvd, timers, reactor, protocols, connector,
          delay, retries, lastNotify, tx, rx, hook, fmt>>

ircVars == <<config, state, channelsToJoin, channelsJoined, saslTimeout, saslData,
             attemptedNick, signed, wire, rcvd, timers, reactor, protocols, connector,
             delay, retries, lastNotify>>

None == "None"

Min(a, b) == IF a < b THEN a ELSE b

\* the string of n copies of the character c
Rep(c, n) == [i \in 1..n |-> c]

(***************************************************************************)
(* base64 (RFC 4648), as base64.b64encode / base64.b64decode compute it.   *)
(***************************************************************************)
PLUS == 43
EQUALS == 61

B64Char(i) ==
    IF i < 26 THEN 65 + i
    ELSE IF i < 52 THEN 97 + (i - 26)
    ELSE IF i < 62 THEN 48 + (i - 52)
    ELSE IF i = 62 THEN 43 ELSE 47

B64Index(ch) ==
    IF ch >= 65 /\ ch <= 90 THEN ch - 65
    ELSE IF ch >= 97 /\ ch <= 122 THEN ch - 97 + 26
    ELSE IF ch >= 48 /\ ch <= 57 THEN ch - 48 + 52
    ELSE IF ch = 43 THEN 62
    ELSE IF ch = 47 THEN 63 ELSE -1

Pow64(k) == IF k = 0 THEN 1 ELSE IF k = 1 THEN 64 ELSE IF k = 2 THEN 4096 ELSE 262144

b64encode(bs) ==
    LET n == Len(bs)
        byte(i) == IF i <= n THEN bs[i] ELSE 0
        group(j) == byte(3 * j + 1) * 65536 + byte(3 * j + 2) * 256 + byte(3 * j + 3)
    IN  [k \in 1..(4 * ((n + 2) \div 3)) |->
            LET j == (k - 1) \div 4
                pos == (k - 1) % 4
            IN  IF pos >= 2 /\ 3 * j + pos > n THEN EQUALS
                ELSE B64Char((group(j) \div Pow64(3 - pos)) % 64)]

\* b64decode raises binascii.Error
B64Error == <<-1>>

\* the decoded bytes, or B64Error
b64decode(s) ==
    LET n == Len(s)
        pad == IF n >= 2 /\ s[n] = EQUALS /\ s[n - 1] = EQUALS THEN 2
               ELSE IF n >= 1 /\ s[n] = EQUALS THEN 1 ELSE 0
        idx(i) == IF s[i] = EQUALS THEN 0 ELSE B64Index(s[i])
        group(j) == idx(4 * j + 1) * 262144 + idx(4 * j + 2) * 4096
                    + idx(4 * j + 3) * 64 + idx(4 * j + 4)
    IN  IF n % 4 # 0 \/ (\E i \in 1..(n - pad) : B64Index(s[i]) < 0)
        THEN B64Error
        ELSE [k \in 1..(3 * (n \div 4) - pad) |->
                LET j == (k - 1) \div 3
                    pos == (k - 1) % 3
                IN  (group(j) \div (IF pos = 0 THEN 65536 ELSE IF pos = 1 THEN 256 ELSE 1)) % 256]

(***************************************************************************)
(* CommitBot.saslAuthenticate and the two halves of irc_AUTHENTICATE.      *)
(***************************************************************************)
SASL_MAX_BLOCK_SIZE == 400

\* b'\x00'.join((username, username, password)) on an empty challenge
saslAuthenticate(data, user, pass) ==
    IF data # <<>> THEN <<>>
    ELSE user \o <<0>> \o user \o <<0>> \o pass

\* out = base64.b64encode(out).decode('ascii') if out else '+'
EncodeOut(out) == IF out # <<>> THEN b64encode(out) ELSE <<PLUS>>

\* the parameters of the AUTHENTICATE lines the while loop and the final
\* if/else send for the string out
RECURSIVE SendChunks(_)
SendChunks(out) ==
    IF Len(out) > SASL_MAX_BLOCK_SIZE
    THEN <<SubSeq(out, 1, SASL_MAX_BLOCK_SIZE)>>
         \o SendChunks(SubSeq(out, SASL_MAX_BLOCK_SIZE + 1, Len(out)))
    ELSE IF out # <<>> THEN <<out>> ELSE <<<<PLUS>>>>

\* the receiving half on one AUTHENTICATE parameter: the new saslData and,
\* when a logical message completes, the message
RecvChunk(buf, data) ==
    LET acc == buf \o data
    IN  IF Len(data) = SASL_MAX_BLOCK_SIZE
        THEN [saslData |-> acc, done |-> FALSE, msg |-> <<>>]
        ELSE [saslData |-> <<>>, done |-> TRUE, msg |-> acc]

\* data = base64.b64decode(data) if data != '+' else b''
DecodeIn(msg) == IF msg # <<PLUS>> THEN b64decode(msg) ELSE <<>>

(***************************************************************************)
(* The SASL chunking harness: the sending half of irc_AUTHENTICATE (lines  *)
(* 127-135) applied to a response, and the receiving half (lines 109-121)  *)
(* applied to the lines it sent.                                           *)
(***************************************************************************)
UserLens == {1, 50, 100, 149, 200}
PassLens == {1, 2, 3, 98, 198, 298, 398}
PatternLens == {399, 401, 1234}

\* a string of n base64 characters
B64Pattern(n) == [i \in 1..n |-> B64Char((7 * i) % 64)]

\* what is to be sent: the bytes saslAuthenticate returned (the credentials on
\* an empty challenge, b'' otherwise), or an already encoded string
TxSources ==
    {[kind |-> "raw", v |-> saslAuthenticate(<<>>, Rep(117, u), Rep(112, p))] :
        u \in UserLens, p \in PassLens}
    \cup {[kind |-> "raw", v |-> saslAuthenticate(<<1>>, <<117>>, <<112>>)]}
    \cup {[kind |-> "enc", v |-> B64Pattern(n)] : n \in PatternLens}

\* the encoded payload of a source, and the string out after line 127
TxPayload(src) == IF src.kind = "raw" THEN b64encode(src.v) ELSE src.v
TxOut(src) == IF src.kind = "raw" THEN EncodeOut(src.v) ELSE src.v

SaslInit ==
    /\ tx \in {[src |-> s, sent |-> FALSE, lines |-> <<>>] : s \in TxSources}
    /\ rx = [saslData |-> <<>>, fed |-> 0, msgs |-> <<>>]

SaslParked ==
    /\ tx = [src |-> [kind |-> "raw", v |-> <<>>], sent |-> FALSE, lines |-> <<>>]
    /\ rx = [saslData |-> <<>>, fed |-> 0, msgs |-> <<>>]

\* lines 127-135: every AUTHENTICATE line of the response is sent
SaslSend ==
    /\ ~tx.sent
    /\ tx' = [tx EXCEPT !.sent = TRUE, !.lines = SendChunks(TxOut(tx.src))]
    /\ UNCHANGED <<rx, ircVars, hook, fmt>>

\* lines 109-121 on the next line sent
SaslFeed ==
    /\ tx.sent
    /\ rx.fed < Len(tx.lines)
    /\ LET r == RecvChunk(rx.saslData, tx.lines[rx.fed + 1])
       IN  rx' = [saslData |-> r.saslData,
                  fed |-> rx.fed + 1,
                  msgs |-> IF r.done THEN Append(rx.msgs, r.msg) ELSE rx.msgs]
    /\ UNCHANGED <<tx, ircVars, hook, fmt>>

SaslNext == SaslSend \/ SaslFeed

\* ---- C2 ----
\* C2 (as claimed): a response whose base64 encoding is 400*k characters long
\* (k >= 1) is sent as k lines of 400 characters followed by a terminating
\* 'AUTHENTICATE +' line; any other non-empty encoding is sent without a
\* terminating '+' (its last line is the remainder, shorter than 400), and the
\* empty payload is sent as a single '+'.
C2_TerminatorOnFullBlocks ==
    tx.sent =>
        LET L == Len(TxPayload(tx.src))
            n == Len(tx.lines)
            k == L \div SASL_MAX_BLOCK_SIZE
        IN  /\ (L > 0 /\ L % SASL_MAX_BLOCK_SIZE = 0) =>
                /\ n = k + 1
                /\ \A i \in 1..k : Len(tx.lines[i]) = SASL_MAX_BLOCK_SIZE
                /\ tx.lines[n] = <<PLUS>>
            /\ (L % SASL_MAX_BLOCK_SIZE # 0) =>
                /\ n = k + 1
                /\ \A i \in 1..k : Len(tx.lines[i]) = SASL_MAX_BLOCK_SIZE
                /\ Len(tx.lines[n]) = L % SASL_MAX_BLOCK_SIZE
            /\ (L = 0) => tx.lines = <<<<PLUS>>>>

\* ---- C3 ----
RoundTripLens == {0, 399, 400, 401, 1234}

\* C3 (as claimed): for encoded payloads of length 0, 399, 400, 401 and 1234,
\* once every line the sending half produced has been fed to the receiving
\* half, exactly one logical message has completed, it equals the payload
\* ('+' standing for the empty payload), and the buffer saslData is empty.
C3_ChunkRoundTrip ==
    (tx.sent /\ rx.fed = Len(tx.lines) /\ Len(TxPayload(tx.src)) \in RoundTripLens) =>
        /\ Len(rx.msgs) = 1
        /\ (IF rx.msgs[1] = <<PLUS>> THEN <<>> ELSE rx.msgs[1]) = TxPayload(tx.src)
        /\ rx.saslData = <<>>

(***************************************************************************)
(* The webhook resource GithubHook (http_hooks.py).                        *)
(*                                                                         *)
(* A request body is a short sequence of tokens, each standing for a run   *)
(* of bytes: "payload=" and "other=" (form keys), "&" (form separator),    *)
(* "{}" (a JSON document), "%7B%7D" (the same document percent-encoded)    *)
(* and "x" (a byte that is neither).  A header value is a sequence of      *)
(* tokens too: "sha256=", hex digits, and "U+00E9" for a non-ASCII letter. *)
(***************************************************************************)
MaxBody == 2
MaxCalls == 1
DigestHexLen == 6

BodyTokens == <<"payload=", "other=", "&", "{}", "%7B%7D", "x">>
Tok == {BodyTokens[i] : i \in 1..Len(BodyTokens)}
Bodies == UNION {[1..n -> Tok] : n \in 0..MaxBody}
Secrets == <<"s1", "s2">>
HexDigits == <<"0", "1", "2", "3", "4", "5", "6", "7", "8", "9",
               "a", "b", "c", "d", "e", "f">>

IndexOf(seq, x) == CHOOSE i \in 1..Len(seq) : seq[i] = x

RECURSIVE BodyNumber(_)
BodyNumber(b) ==
    IF b = <<>> THEN 0
    ELSE IndexOf(BodyTokens, b[Len(b)])
         + (Len(BodyTokens) + 1) * BodyNumber(SubSeq(b, 1, Len(b) - 1))

RECURSIVE Pow(_, _)
Pow(a, n) == IF n = 0 THEN 1 ELSE a * Pow(a, n - 1)

\* hmac.new(secret, msg=payload, digestmod=sha256).hexdigest(): an ideal MAC,
\* a fixed-length hex string that differs whenever the key or the message does
hexdigest(secret, payload) ==
    LET n == IndexOf(Secrets, secret) * Pow(Len(BodyTokens) + 1, MaxBody + 2)
             + BodyNumber(payload)
    IN  [k \in 1..DigestHexLen |-> HexDigits[((n \div Pow(16, DigestHexLen - k)) % 16) + 1]]

IsAscii(s) == \A i \in 1..Len(s) : s[i] # "U+00E9"

\* hmac.compare_digest on two str: "True" or "False", TypeError unless both
\* are ASCII
compare_digest(a, b) ==
    IF ~IsAscii(a) \/ ~IsAscii(b) THEN "TypeError"
    ELSE IF a = b THEN "True" ELSE "False"

\* GithubHook.checkSignature
checkSignature(secret, payload, signature) ==
    LET expected == <<"sha256=">> \o hexdigest(secret, payload)
    IN  compare_digest(expected, signature)

\* the request bodies a signature may have been computed over: the body, a
\* truncation of it, and the body with one byte altered
BodyVariants(b) ==
    {b} \cup {SubSeq(b, 1, n) : n \in 0..(Len(b) - 1)}
        \cup {[b EXCEPT ![i] = IF b[i] = "x" THEN "&" ELSE "x"] : i \in 1..Len(b)}

\* request.getHeader('X-Hub-Signature-256') is None
NoHeader == <<"None">>

\* X-Hub-Signature-256 values: absent, well-formed, and malformed
Signatures(b) ==
    {NoHeader}
    \cup {<<"sha256=">> \o hexdigest(Secrets[k], v) : k \in 1..Len(Secrets), v \in BodyVariants(b)}
    \cup {<<>>, hexdigest(Secrets[1], b), <<"sha256=">>,
          <<"sha256=">> \o hexdigest(Secrets[1], b) \o <<"0">>,
          <<"sha256=", "U+00E9">>}

ContentTypes == {None, "application/json", "Application/JSON",
                 "application/x-www-form-urlencoded", "text/plain"}

\* str.lower()
lower(ct) == IF ct = "Application/JSON" THEN "application/json" ELSE ct

\* urllib unquote of a form value
unquote(v) == [i \in 1..Len(v) |-> IF v[i] = "%7B%7D" THEN "{}" ELSE v[i]]

\* the fields of a form body: the runs of tokens between "&"
RECURSIVE SplitAmp(_)
SplitAmp(b) ==
    IF \A i \in 1..Len(b) : b[i] # "&" THEN <<b>>
    ELSE LET i == CHOOSE i \in 1..Len(b) :
                    b[i] = "&" /\ \A j \in 1..(i - 1) : b[j] # "&"
         IN  <<SubSeq(b, 1, i - 1)>> \o SplitAmp(SubSeq(b, i + 1, Len(b)))

\* http.parse_qs(payload, keep_blank_values=True).get(b'payload'): the list of
\* values of the fields whose name is payload (<<>> stands for None: parse_qs
\* holds no empty list)
parse_qs_payload(b) ==
    LET fields == SplitAmp(b)
        hits == SelectSeq(fields, LAMBDA f : f # <<>> /\ f[1] = "payload=")
    IN  [i \in 1..Len(hits) |-> unquote(SubSeq(hits[i], 2, Len(hits[i])))]

\* json.loads(payload): the document, or "JSONDecodeError"
json_loads(payload) == IF payload = <<"{}">> THEN "{}" ELSE "JSONDecodeError"

FORBIDDEN == 403
BAD_REQUEST == 400
UNSUPPORTED_MEDIA_TYPE == 415
OK == 200
INTERNAL_SERVER_ERROR == 500

\* GithubHook.render_POST: the response, what was parsed, and the calls handed
\* to reactor.callLater (at most one).  An exception leaving render_POST is
\* answered by twisted.web with a 500.
render_POST(secret, req) ==
    LET sigok == IF secret # None /\ req.sig # NoHeader
                 THEN checkSignature(secret, req.body, req.sig) ELSE None
        ct == IF req.ct = None THEN "" ELSE lower(req.ct)
        form == parse_qs_payload(req.body)
        reply(code, text, parsed, calls) ==
            [code |-> code, text |-> text, sigok |-> sigok, parsed |-> parsed, calls |-> calls]
        dispatch(payload, parsed) ==
            IF json_loads(payload) = "JSONDecodeError"
            THEN reply(INTERNAL_SERVER_ERROR, "JSONDecodeError", parsed \cup {"json"}, <<>>)
            ELSE reply(OK, "OK", parsed \cup {"json"},
                       <<[origin |-> "github", event |-> req.event,
                          payload |-> json_loads(payload)]>>)
    IN  IF secret # None /\ req.sig = NoHeader
        THEN reply(FORBIDDEN, "Missing signature", {}, <<>>)
        ELSE IF secret # None /\ sigok = "TypeError"
        THEN reply(INTERNAL_SERVER_ERROR, "TypeError", {}, <<>>)
        ELSE IF secret # None /\ sigok = "False"
        THEN reply(FORBIDDEN, "Invalid signature", {}, <<>>)
        ELSE IF ct = "application/x-www-form-urlencoded"
        THEN IF Len(form) # 1
             THEN reply(BAD_REQUEST, "Missing payload", {"form"}, <<>>)
             ELSE dispatch(form[1], {"form"})
        ELSE IF ct # "application/json"
        THEN reply(UNSUPPORTED_MEDIA_TYPE, "Invalid Content-Type", {}, <<>>)
        ELSE dispatch(req.body, {})

(***************************************************************************)
(* The formatter CommitFormatter (__main__.py), first half: the documents  *)
(* it is called with and the start of the format coroutine.  A JSON        *)
(* document is what the formatter reads of it: whether it holds the keys   *)
(* of a GitHub event, the action of a pull request, the number of commits  *)
(* of a push and whether the push was forced.                              *)
(***************************************************************************)
MaxCommits == 5   \* commits of a push
MaxEvents == 2    \* format coroutines started

PullActions == {"opened", "closed", "reopened", "labeled"}

Documents(event) ==
    {[complete |-> FALSE, action |-> None, n |-> 0, forced |-> FALSE]}
    \cup (IF event = "pull_request"
          THEN {[complete |-> TRUE, action |-> a, n |-> 0, forced |-> FALSE] : a \in PullActions}
          ELSE IF event = "push"
          THEN {[complete |-> TRUE, action |-> None, n |-> k, forced |-> FALSE] :
                    k \in 0..MaxCommits}
               \cup {[complete |-> TRUE, action |-> None, n |-> 1, forced |-> TRUE]}
          ELSE {[complete |-> TRUE, action |-> None, n |-> 0, forced |-> FALSE]})

\* CommitFormatter.format up to its first suspension: "failed" (KeyError at
\* line 35), "done" (nothing to say), or "request" (awaiting agent.request
\* inside Shortener.shorten)
format_start(event, doc) ==
    IF ~doc.complete THEN "failed"
    ELSE IF event = "pull_request"
    THEN IF doc.action \notin {"opened", "closed", "reopened"} THEN "done" ELSE "request"
    ELSE IF event = "push" THEN "request"
    ELSE "done"

\* CommitFormatter.__call__: Deferred.fromCoroutine runs the coroutine at once
\* up to its first suspension
CommitFormatter_call(event, doc) ==
    fmt' = [fmt EXCEPT !.tasks = Append(@,
                [event |-> event, doc |-> doc, pc |-> format_start(event, doc),
                 shortened |-> format_start(event, doc) = "request",
                 shorten |-> "pending"])]

FmtParked == fmt = [tasks |-> <<>>, out |-> <<>>]

\* hook.req and hook.resp while no request is being answered
NoReq == [event |-> None, sig |-> NoHeader, ct |-> None, body |-> <<>>]
NoResp == [code |-> 0, text |-> None, sigok |-> None, parsed |-> {}, calls |-> <<>>]

HookInit ==
    hook \in {[secret |-> k, phase |-> "idle", req |-> NoReq, resp |-> NoResp, calls |-> <<>>] :
                k \in {None, Secrets[1]}}

HookParked ==
    hook = [secret |-> None, phase |-> "idle", req |-> NoReq, resp |-> NoResp, calls |-> <<>>]

\* render_POST that calls the formatter itself instead of scheduling the call
HookAnswer_sync(req) ==
    /\ hook.phase = "idle"
    /\ Len(hook.calls) + Len(fmt.tasks) < MaxCalls
    /\ LET r == render_POST(hook.secret, req)
       IN  /\ hook' = [hook EXCEPT !.phase = "answered", !.req = req, !.resp = r]
           /\ IF r.calls = <<>> THEN UNCHANGED fmt
              ELSE \E doc \in Documents(req.event) : CommitFormatter_call(req.event, doc)
    /\ UNCHANGED <<ircVars, tx, rx>>

\* render_POST answers the request req
HookAnswer(req) ==
    /\ hook.phase = "idle"
    /\ Len(hook.calls) + Len(fmt.tasks) < MaxCalls
    /\ LET r == render_POST(hook.secret, req)
       IN  hook' = [hook EXCEPT !.phase = "answered", !.req = req, !.resp = r,
                                !.calls = @ \o r.calls]
    /\ UNCHANGED <<ircVars, tx, rx, fmt>>

\* a POST arrives and render_POST answers it
HookPost ==
    \E b \in Bodies, e \in {"push", "pull_request"}, c \in ContentTypes :
    \E g \in Signatures(b) :
        HookAnswer([event |-> e, sig |-> g, ct |-> c, body |-> b])

\* the response has been written; the resource waits for the next request
HookFinish ==
    /\ hook.phase = "answered"
    /\ hook' = [hook EXCEPT !.phase = "idle", !.req = NoReq, !.resp = NoResp]
    /\ UNCHANGED <<ircVars, tx, rx, fmt>>

\* the reactor runs the first call scheduled with callLater(0, notify, ...):
\* the formatter is invoked with the event and the parsed document
HookRunCall ==
    /\ hook.calls # <<>>
    /\ hook' = [hook EXCEPT !.calls = Tail(@)]
    /\ \E doc \in Documents(Head(hook.calls).event) :
            CommitFormatter_call(Head(hook.calls).event, doc)
    /\ UNCHANGED <<ircVars, tx, rx>>

HookNext == HookPost \/ HookFinish \/ HookRunCall

\* ---- C9 ----
\* C9 (as claimed): whenever checkSignature has been called for a request, it
\* returned a boolean (never raised), and it accepted exactly if the header is
\* 'sha256=' followed by the hex HMAC-SHA256 of the raw body under the secret.
C9_SignatureIff ==
    (hook.phase = "answered" /\ hook.secret # None /\ hook.req.sig # NoHeader) =>
        /\ hook.resp.sigok \in {"True", "False"}
        /\ (hook.resp.sigok = "True") <=>
              (hook.req.sig = <<"sha256=">> \o hexdigest(hook.secret, hook.req.body))

\* ---- C10 ----
\* C10 (as claimed): with a secret configured, a POST whose signature header
\* is missing or is not the signature of the raw body is answered 403 whatever
\* its Content-Type and body, nothing of it is form- or JSON-parsed, and no
\* call is scheduled for it.
C10_VerifyBeforeParse ==
    (hook.phase = "answered" /\ hook.secret # None
        /\ (hook.req.sig = NoHeader
            \/ hook.req.sig # <<"sha256=">> \o hexdigest(hook.secret, hook.req.body))) =>
        /\ hook.resp.code = FORBIDDEN
        /\ hook.resp.parsed = {}
        /\ hook.resp.calls = <<>>

\* ---- C11 ----
\* the request passes signature verification and content negotiation and
\* carries one payload
Negotiated(secret, req) ==
    /\ secret # None => req.sig = <<"sha256=">> \o hexdigest(secret, req.body)
    /\ \/ lower(req.ct) = "application/json"
       \/ lower(req.ct) = "application/x-www-form-urlencoded"
            /\ Len(parse_qs_payload(req.body)) = 1

PayloadOf(req) ==
    IF lower(req.ct) = "application/json" THEN req.body ELSE parse_qs_payload(req.body)[1]

\* C11 (as claimed): a POST that passes signature verification and content
\* negotiation but whose payload is not valid JSON is answered 400 and
\* schedules no call, and the only status codes a POST can produce are 200,
\* 400, 403 and 415.  (Stated for the requests whose signature check returns:
\* the check that raises is the matter of C9.)
C11_MalformedJson ==
    (hook.phase = "answered" /\ hook.resp.sigok # "TypeError") =>
        /\ hook.resp.code \in {OK, BAD_REQUEST, FORBIDDEN, UNSUPPORTED_MEDIA_TYPE}
        /\ (/\ Negotiated(hook.secret, hook.req)
            /\ json_loads(PayloadOf(hook.req)) = "JSONDecodeError") =>
                hook.resp.code = BAD_REQUEST /\ hook.resp.calls = <<>>

(***************************************************************************)
(* The IRC client CommitBot and its factory CommitBotFactory (irc_bot.py). *)
(*                                                                         *)
(* The server is the environment.  It answers what it was sent: it         *)
(* confirms a JOIN only if one is outstanding and kicks the bot only from  *)
(* a channel the bot is in; capability and SASL replies come only to a     *)
(* client that sent CAP REQ and only during registration.  It may repeat,  *)
(* reorder or withhold any of its replies.                                 *)
(***************************************************************************)
MaxConn == 2      \* connections built by the factory
MaxRetries == 9   \* consecutive failed connection attempts
MaxSasl == 3      \* capability and SASL lines the servers send
MaxKick == 1      \* kicks
MaxNick == 1      \* nick collisions
MaxNotify == 1    \* notifications handed to the factory

Conns == 1..MaxConn

\* config['channels'].split(), each entry rsplit(',', maxsplit=1)
ConfigChannels == <<<<"#a">>, <<"#b", "key">>, <<"general">>>>

\* IRCClient.join prepends '#' to a channel name that carries no prefix
ChannelName(ch) == IF ch = "general" THEN "#general" ELSE ch

Tags == {"push", "pull_request"}

\* lines 57-62: self.filters, keyed by the configured channel name
filters ==
    [ch \in {ConfigChannels[i][1] : i \in DOMAIN ConfigChannels} \cap DOMAIN config.filter |->
        SelectSeq(config.filter[ch], LAMBDA tag : tag # "")]

BaseConfig ==
    [sasl_user |-> <<117>>, sasl_pass |-> <<112>>, channels |-> ConfigChannels,
     filter |-> [ch \in {"#a", "general"} |-> <<"push">>]]

\* a line of the wire log
Out(cmd, arg) == [dir |-> ">>", cmd |-> cmd, arg |-> arg, data |-> <<>>]
OutData(cmd, data) == [dir |-> ">>", cmd |-> cmd, arg |-> <<>>, data |-> data]
In(cmd, arg) == [dir |-> "<<", cmd |-> cmd, arg |-> arg, data |-> <<>>]

Count(seq, P(_)) == Cardinality({i \in DOMAIN seq : P(seq[i])})
Sent(c, kind, cmd, arg) == \E i \in DOMAIN wire[c][kind] : wire[c][kind][i] = Out(cmd, arg)
Received(kind) == rcvd' = [rcvd EXCEPT ![kind] = @ + 1]

\* IRCClient.sendLine: the line is handed to the transport
sendLine(c, kind, lines) == wire' = [wire EXCEPT ![c][kind] = @ \o lines]

\* IRCClient.join(channel, key)
join(cp) == Out("JOIN", [cp EXCEPT ![1] = ChannelName(cp[1])])

\* a queue consumed from its head
pop_first(list) == list[1]

\* list.pop(): the last element
pop(list) == list[Len(list)]
popped(list) == SubSeq(list, 1, Len(list) - 1)

\* JOINs sent and not yet confirmed
PendingJoins(c) ==
    {ch \in {ChannelName(ConfigChannels[i][1]) : i \in DOMAIN ConfigChannels} :
        Count(wire[c].join, LAMBDA l : l.dir = ">>" /\ l.cmd = "JOIN" /\ l.arg[1] = ch)
        > Count(wire[c].join, LAMBDA l : l = In("JOIN", <<ch>>))}

\* ---- ReconnectingClientFactory (twisted), the base class of
\* CommitBotFactory, which overrides none of its attributes.  Delays are in
\* hundredths of a second, factor and jitter in thousandths ----
initialDelay == 100      \* initialDelay = 1.0
factor == 2718           \* factor = 2.7182818284590451
maxDelay == 360000       \* maxDelay = 3600
jitter == 120            \* jitter = 0.119626565582

\* random.normalvariate(mu, mu * jitter): the mean and one standard
\* deviation to either side of it
normalvariate(mu) == {mu - (mu * jitter) \div 1000, mu, mu + (mu * jitter) \div 1000}

\* ReconnectingClientFactory.retry: grow the delay up to the cap, jitter it
\* and schedule the reconnection after it
retry ==
    /\ retries' = retries + 1
    /\ delay' \in normalvariate(Min((delay * factor) \div 1000, maxDelay))
    /\ connector' = "waiting"

\* ReconnectingClientFactory.resetDelay
resetDelay ==
    /\ delay' = initialDelay
    /\ retries' = 0

\* protocolReady that leaves the backoff as it is
protocolReady_no_reset(c) ==
    /\ protocols' = protocols \cup {c}
    /\ UNCHANGED <<delay, retries>>

\* CommitBotFactory.protocolReady
protocolReady(c) ==
    /\ protocols' = protocols \cup {c}
    /\ resetDelay

\* protocolDead that forgets to discard the protocol
protocolDead_keep(cs) == UNCHANGED protocols

\* CommitBotFactory.protocolDead
protocolDead(cs) == protocols' = protocols \ cs

\* self.saslData is None
NoSaslData == <<-1>>

IrcInitWith(cfg) ==
    /\ config = cfg
    /\ state = [c \in Conns |-> "unborn"]
    /\ channelsToJoin = [c \in Conns |-> <<>>]
    /\ channelsJoined = [c \in Conns |-> {}]
    /\ saslTimeout = [c \in Conns |-> 0]
    /\ saslData = [c \in Conns |-> NoSaslData]
    /\ attemptedNick = [c \in Conns |-> 0]
    /\ signed = [c \in Conns |-> FALSE]
    /\ wire = [c \in Conns |-> [reg |-> <<>>, sasl |-> <<>>, join |-> <<>>, msg |-> <<>>]]
    /\ rcvd = [sasl |-> 0, kick |-> 0, nick |-> 0]
    /\ timers = {}
    /\ reactor = "running"
    /\ protocols = {}
    /\ connector = "connecting"
    /\ delay = initialDelay
    /\ retries = 0
    /\ lastNotify = [n |-> 0, tag |-> None, message |-> None, to |-> {}]

IrcParked == IrcInitWith(BaseConfig)

Alive == reactor # "stopped"
otherVars == <<tx, rx, hook, fmt>>

\* the connection attempt succeeds: buildProtocol, then CommitBot.connectionMade
\* and IRCClient.connectionMade (register: NICK, USER)
connectionMade(c) ==
    /\ Alive /\ connector = "connecting"
    /\ state[c] = "unborn" /\ \A d \in 1..(c - 1) : state[d] # "unborn"
    /\ state' = [state EXCEPT ![c] = "open"]
    /\ channelsToJoin' = [channelsToJoin EXCEPT ![c] = config.channels]
    /\ wire' = [wire EXCEPT
                    ![c].sasl = IF config.sasl_user # <<>> /\ config.sasl_pass # <<>>
                                THEN <<Out("CAP", <<"REQ", "sasl">>)>> ELSE <<>>,
                    ![c].reg = <<Out("NICK", <<"nick">>),
                                 Out("USER", <<"username", "realname">>)>>]
    /\ connector' = "connected"
    /\ UNCHANGED <<config, channelsJoined, saslTimeout, saslData, attemptedNick, signed,
                   timers, reactor, protocols, delay, retries, lastNotify, rcvd, otherVars>>

\* the connection attempt fails: clientConnectionFailed -> retry
clientConnectionFailed ==
    /\ Alive /\ connector = "connecting"
    /\ retries < MaxRetries
    /\ retry
    /\ UNCHANGED <<config, state, channelsToJoin, channelsJoined, saslTimeout, saslData,
                   attemptedNick, signed, wire, timers, reactor, protocols, lastNotify,
                   rcvd, otherVars>>

\* the reconnection timer of retry fires: connector.connect()
reconnect ==
    /\ Alive /\ connector = "waiting"
    /\ \E c \in Conns : state[c] = "unborn"
    /\ connector' = "connecting"
    /\ UNCHANGED <<config, state, channelsToJoin, channelsJoined, saslTimeout, saslData,
                   attemptedNick, signed, wire, timers, reactor, protocols, delay, retries,
                   lastNotify, rcvd, otherVars>>

\* CommitBot.connectionLost, then the factory's clientConnectionLost -> retry
connectionLost(c) ==
    /\ Alive /\ state[c] \in {"open", "closing"}
    /\ state' = [state EXCEPT ![c] = "lost"]
    /\ protocolDead({c})
    /\ retry
    /\ UNCHANGED <<config, channelsToJoin, channelsJoined, saslTimeout, saslData,
                   attemptedNick, signed, wire, timers, reactor, lastNotify, rcvd, otherVars>>

\* the server lines handled during registration
CanReceiveSasl(c) ==
    /\ Alive /\ state[c] = "open" /\ ~signed[c]
    /\ Sent(c, "sasl", "CAP", <<"REQ", "sasl">>)
    /\ rcvd.sasl < MaxSasl
    /\ Received("sasl")

\* a DelayedCall not yet pending on the connection
NewTimer(c) == CHOOSE k \in 1..(MaxSasl + MaxNick + 1) :
                    \A t \in timers : ~(t.conn = c /\ t.id = k)

\* str.lower() of a capability list
CapLists == {<<"sasl">>, <<"multi-prefix">>, <<"multi-prefix", "SASL">>}
lowerCap(e) == IF e = "SASL" THEN "sasl" ELSE e
HasSasl(exts) == \E i \in DOMAIN exts : lowerCap(exts[i]) = "sasl"

\* CommitBot.irc_CAP
irc_CAP(c, subcommand, exts) ==
    /\ CanReceiveSasl(c)
    /\ IF subcommand = "NAK"
       THEN /\ sendLine(c, "sasl", <<Out("CAP", <<"END">>)>>)
            /\ UNCHANGED <<saslData, saslTimeout, timers>>
       ELSE IF subcommand = "ACK"
       THEN /\ sendLine(c, "sasl", (IF ~HasSasl(exts) THEN <<Out("CAP", <<"END">>)>> ELSE <<>>)
                           \o <<Out("AUTHENTICATE", <<"PLAIN">>)>>)
            /\ saslData' = [saslData EXCEPT ![c] = <<>>]
            /\ saslTimeout' = [saslTimeout EXCEPT ![c] = NewTimer(c)]
            /\ timers' = timers \cup {[conn |-> c, fn |-> "_saslTimedout", arg |-> 0,
                                       id |-> NewTimer(c)]}
       ELSE UNCHANGED <<wire, saslData, saslTimeout, timers>>
    /\ UNCHANGED <<config, state, channelsToJoin, channelsJoined, attemptedNick, signed,
                   reactor, protocols, connector, delay, retries, lastNotify,
                   otherVars>>

\* the challenges a server sends: empty, a short one, and a full block
Challenges == {<<PLUS>>, <<81, 85, 74, 68>>, Rep(65, SASL_MAX_BLOCK_SIZE)}

\* CommitBot.irc_AUTHENTICATE; an AssertionError or a binascii.Error ends the
\* handler where it is raised (IRCClient.handleCommand logs it)
irc_AUTHENTICATE(c, nparams, data) ==
    /\ CanReceiveSasl(c)
    /\ IF nparams > 1 \/ saslData[c] = NoSaslData
       THEN UNCHANGED <<wire, saslData>>
       ELSE LET r == RecvChunk(saslData[c], data)
                decoded == DecodeIn(r.msg)
            IN  /\ saslData' = [saslData EXCEPT ![c] = r.saslData]
                /\ IF ~r.done \/ decoded = B64Error
                   THEN UNCHANGED wire
                   ELSE LET out == EncodeOut(saslAuthenticate(decoded, config.sasl_user,
                                                              config.sasl_pass))
                            parts == SendChunks(out)
                        IN  sendLine(c, "sasl", [i \in DOMAIN parts |->
                                            OutData("AUTHENTICATE", parts[i])])
    /\ UNCHANGED <<config, state, channelsToJoin, channelsJoined, saslTimeout,
                   attemptedNick, signed, timers, reactor, protocols, connector, delay,
                   retries, lastNotify, otherVars>>

\* CommitBot._saslEnd
_saslEnd(c) ==
    /\ IF saslTimeout[c] # 0
       THEN /\ timers' = {t \in timers : ~(t.conn = c /\ t.id = saslTimeout[c])}
            /\ saslTimeout' = [saslTimeout EXCEPT ![c] = 0]
       ELSE UNCHANGED <<timers, saslTimeout>>
    /\ sendLine(c, "sasl", <<Out("CAP", <<"END">>)>>)

\* CommitBot.irc_903, irc_905 and irc_907 (= irc_903)
irc_903(c, numeric) ==
    /\ CanReceiveSasl(c)
    /\ numeric \in {"903", "905", "907"}
    /\ _saslEnd(c)
    /\ UNCHANGED <<config, state, channelsToJoin, channelsJoined, saslData, attemptedNick,
                   signed, reactor, protocols, connector, delay, retries,
                   lastNotify, otherVars>>

\* CommitBot.irc_904 and irc_906: transport.loseConnection()
irc_904(c, numeric) ==
    /\ CanReceiveSasl(c)
    /\ numeric \in {"904", "906"}
    /\ state' = [state EXCEPT ![c] = "closing"]
    /\ UNCHANGED <<config, channelsToJoin, channelsJoined, saslTimeout, saslData,
                   attemptedNick, signed, wire, timers, reactor, protocols, connector, delay,
                   retries, lastNotify, otherVars>>

\* the reactor runs the DelayedCall of self._saslTimedout
_saslTimedout(t) ==
    /\ Alive /\ t \in timers /\ t.fn = "_saslTimedout"
    /\ timers' = timers \ {t}
    /\ IF saslTimeout[t.conn] = 0
       THEN UNCHANGED <<saslTimeout, wire>>
       ELSE /\ saslTimeout' = [saslTimeout EXCEPT ![t.conn] = 0]
            /\ sendLine(t.conn, "sasl", <<Out("CAP", <<"END">>)>>)
    /\ UNCHANGED <<config, state, channelsToJoin, channelsJoined, saslData, attemptedNick,
                   signed, reactor, protocols, connector, delay, retries,
                   lastNotify, rcvd, otherVars>>

\* config['nick'] with 0, 1, ... underscores appended
Nicknames == <<"nick", "nick_", "nick__", "nick___", "nick____">>

\* IRCClient.setNick, as the nickname with k underscores appended
setNick(c, k) ==
    /\ attemptedNick' = [attemptedNick EXCEPT ![c] = k]
    /\ sendLine(c, "reg", <<Out("NICK", <<Nicknames[k + 1]>>)>>)

\* ERR_NICKNAMEINUSE: CommitBot.alterCollidedNick schedules the retry of the
\* nickname and returns it with '_' appended, which IRCClient sets
alterCollidedNick(c) ==
    /\ Alive /\ state[c] = "open"
    /\ rcvd.nick < MaxNick
    /\ Received("nick")
    /\ timers' = timers \cup {[conn |-> c, fn |-> "setNick", arg |-> attemptedNick[c],
                               id |-> NewTimer(c)]}
    /\ setNick(c, attemptedNick[c] + 1)
    /\ UNCHANGED <<config, state, channelsToJoin, channelsJoined, saslTimeout, saslData,
                   signed, reactor, protocols, connector, delay, retries,
                   lastNotify, otherVars>>

\* the reactor runs the DelayedCall of self.setNick
nickTimer(t) ==
    /\ Alive /\ t \in timers /\ t.fn = "setNick"
    /\ timers' = timers \ {t}
    /\ setNick(t.conn, t.arg)
    /\ UNCHANGED <<config, state, channelsToJoin, channelsJoined, saslTimeout, saslData,
                   signed, reactor, protocols, connector, delay, retries,
                   lastNotify, rcvd, otherVars>>

\* CommitBot.signedOn (RPL_WELCOME)
signedOn(c) ==
    /\ Alive /\ state[c] = "open" /\ ~signed[c]
    /\ signed' = [signed EXCEPT ![c] = TRUE]
    /\ protocolReady(c)
    /\ IF channelsToJoin[c] # <<>>
       THEN /\ channelsToJoin' = [channelsToJoin EXCEPT ![c] = popped(@)]
            /\ sendLine(c, "join", <<join(pop(channelsToJoin[c]))>>)
       ELSE UNCHANGED <<channelsToJoin, wire>>
    /\ UNCHANGED <<config, state, channelsJoined, saslTimeout, saslData, attemptedNick,
                   timers, reactor, connector, lastNotify, rcvd, otherVars>>

\* joined that records the channel and does not go on with the queue
joined_no_next(c, channel) ==
    /\ Alive /\ state[c] = "open"
    /\ channel \in PendingJoins(c)
    /\ channelsJoined' = [channelsJoined EXCEPT ![c] = @ \cup {channel}]
    /\ sendLine(c, "join", <<In("JOIN", <<channel>>)>>)
    /\ UNCHANGED <<config, state, channelsToJoin, saslTimeout, saslData, attemptedNick,
                   signed, timers, reactor, protocols, connector, delay, retries,
                   lastNotify, rcvd, otherVars>>

\* CommitBot.joined: the server confirms an outstanding JOIN
joined(c, channel) ==
    /\ Alive /\ state[c] = "open"
    /\ channel \in PendingJoins(c)
    /\ channelsJoined' = [channelsJoined EXCEPT ![c] = @ \cup {channel}]
    /\ IF channelsToJoin[c] # <<>>
       THEN /\ channelsToJoin' = [channelsToJoin EXCEPT ![c] = popped(@)]
            /\ sendLine(c, "join", <<In("JOIN", <<channel>>), join(pop(channelsToJoin[c]))>>)
       ELSE /\ sendLine(c, "join", <<In("JOIN", <<channel>>)>>)
            /\ UNCHANGED channelsToJoin
    /\ UNCHANGED <<config, state, saslTimeout, saslData, attemptedNick, signed, timers,
                   reactor, protocols, connector, delay, retries, lastNotify,
                   rcvd, otherVars>>

\* kickedFrom that stops the reactor whatever the reason of the kick
kickedFrom_any_reason(c, channel, message) ==
    /\ Alive /\ state[c] = "open"
    /\ channel \in channelsJoined[c]
    /\ rcvd.kick < MaxKick
    /\ Received("kick")
    /\ channelsJoined' = [channelsJoined EXCEPT ![c] = @ \ {channel}]
    /\ reactor' = "stopping"
    /\ sendLine(c, "join", <<In("KICK", <<channel, message>>)>>)
    /\ UNCHANGED <<config, state, channelsToJoin, saslTimeout, saslData, attemptedNick,
                   signed, timers, protocols, connector, delay, retries,
                   lastNotify, otherVars>>

\* CommitBot.kickedFrom; a second reactor.stop() raises ReactorNotRunning
kickedFrom(c, channel, message) ==
    /\ Alive /\ state[c] = "open"
    /\ channel \in channelsJoined[c]
    /\ rcvd.kick < MaxKick
    /\ Received("kick")
    /\ channelsJoined' = [channelsJoined EXCEPT ![c] = @ \ {channel}]
    /\ IF message = "die"
       THEN /\ reactor' = "stopping"
            /\ sendLine(c, "join", <<In("KICK", <<channel, message>>)>>)
       ELSE /\ sendLine(c, "join", <<In("KICK", <<channel, message>>), join(<<channel>>)>>)
            /\ UNCHANGED reactor
    /\ UNCHANGED <<config, state, channelsToJoin, saslTimeout, saslData, attemptedNick,
                   signed, timers, protocols, connector, delay, retries,
                   lastNotify, otherVars>>

\* reactor.stop() takes effect: the shutdown event disconnects every transport
\* and the reactor runs nothing more
shutdown ==
    /\ reactor = "stopping"
    /\ reactor' = "stopped"
    /\ state' = [c \in Conns |-> IF state[c] \in {"open", "closing"} THEN "lost" ELSE state[c]]
    /\ protocolDead({c \in Conns : state[c] \in {"open", "closing"}})
    /\ IF \E c \in Conns : state[c] \in {"open", "closing"}
       THEN retry
       ELSE UNCHANGED <<retries, delay, connector>>
    /\ UNCHANGED <<config, channelsToJoin, channelsJoined, saslTimeout, saslData,
                   attemptedNick, signed, wire, timers, lastNotify, rcvd, otherVars>>

\* CommitBot.notify: the joined channels the message goes to
NotifyTargets(c, tag) ==
    {channel \in channelsJoined[c] :
        ~(/\ channel \in DOMAIN filters
          /\ filters[channel] # <<>>
          /\ \A i \in DOMAIN filters[channel] : filters[channel][i] # tag)}

\* a set as a sequence, in some order (the iteration order of a Python set)
RECURSIVE SetToSeq(_)
SetToSeq(S) == IF S = {} THEN <<>>
               ELSE LET x == CHOOSE x \in S : TRUE IN <<x>> \o SetToSeq(S \ {x})

\* CommitBot.notify: one PRIVMSG per target channel
notify(c, tag, message) ==
    LET to == SetToSeq(NotifyTargets(c, tag))
    IN  [i \in DOMAIN to |-> Out("PRIVMSG", <<to[i], message>>)]

\* CommitBotFactory.notify
factory_notify(tag, message) ==
    /\ Alive
    /\ lastNotify.n < MaxNotify
    /\ wire' = [c \in Conns |->
                    IF c \in protocols
                    THEN [wire[c] EXCEPT !.msg = @ \o notify(c, tag, message)]
                    ELSE wire[c]]
    /\ lastNotify' = [n |-> lastNotify.n + 1, tag |-> tag, message |-> message,
                      to |-> protocols]
    /\ UNCHANGED <<config, state, channelsToJoin, channelsJoined, saslTimeout, saslData,
                   attemptedNick, signed, timers, reactor, protocols, connector, delay,
                   retries, rcvd, otherVars>>

(***************************************************************************)
(* The formatter CommitFormatter (__main__.py), second half, and the link  *)
(* shortener Shortener (shortener.py).                                     *)
(***************************************************************************)
\* payload['repository']['name']
Repo == "scummvm"

\* the i-th commit of a push: ids of 10, 7 and 5 characters, messages with
\* and without line breaks
CommitId(i) == [k \in 1..(<<10, 7, 5>>[(i % 3) + 1]) |-> 100 * i + k]
CommitMessage(i) ==
    CASE i % 4 = 1 -> <<"subject", "\n", "body">>
      [] i % 4 = 2 -> <<"subject">>
      [] i % 4 = 3 -> <<"\n", "body">>
      [] OTHER -> <<"subject", "\n", "body", "\n", "more">>

\* c['message'].split('\n', maxsplit=1)[0]
FirstLine(m) ==
    IF \A i \in 1..Len(m) : m[i] # "\n" THEN m
    ELSE SubSeq(m, 1, (CHOOSE i \in 1..Len(m) :
                            m[i] = "\n" /\ \A j \in 1..(i - 1) : m[j] # "\n") - 1)

\* c['id'][0:7]
ShortId(id) == SubSeq(id, 1, Min(7, Len(id)))

\* the URL handed to the shortener
LongUrl(event) == IF event = "pull_request" THEN "html_url" ELSE "compare"

\* the texts format passes to self.irc.notify once it has the link, in order
Messages(task, surl) ==
    IF task.event = "pull_request"
    THEN <<[kind |-> "pull_request", verb |-> task.doc.action, n |-> 0, link |-> surl,
            id |-> <<>>, text |-> <<>>]>>
    ELSE <<[kind |-> "push", verb |-> IF task.doc.forced THEN "forced pushed" ELSE "pushed",
            n |-> task.doc.n, link |-> surl, id |-> <<>>, text |-> <<>>]>>
         \o [i \in 1..Min(task.doc.n, 3) |->
                [kind |-> "commit", verb |-> None, n |-> 0, link |-> None,
                 id |-> ShortId(CommitId(i)), text |-> FirstLine(CommitMessage(i))]]

\* the PRIVMSG lines of one connection for successive CommitBot.notify calls
RECURSIVE Deliver(_, _, _)
Deliver(c, tag, msgs) ==
    IF msgs = <<>> THEN <<>>
    ELSE notify(c, tag, Head(msgs)) \o Deliver(c, tag, Tail(msgs))

\* format that hands over its first message and suspends before the others
Emit_first_only(t, result) ==
    LET surl == IF result \in {None, ""} THEN LongUrl(fmt.tasks[t].event) ELSE result
        msgs == <<Head(Messages(fmt.tasks[t], surl))>>
    IN  /\ fmt' = [fmt EXCEPT !.tasks[t].pc = "done", !.tasks[t].shorten = result,
                              !.out = @ \o [i \in 1..Len(msgs) |->
                                        [task |-> t, tag |-> Repo, message |-> msgs[i]]]]
        /\ wire' = [c \in Conns |->
                        IF c \in protocols
                        THEN [wire[c] EXCEPT !.msg = @ \o Deliver(c, Repo, msgs)]
                        ELSE wire[c]]
        /\ lastNotify' = [n |-> lastNotify.n + Len(msgs), tag |-> Repo,
                          message |-> msgs[Len(msgs)], to |-> protocols]

\* shorten returns result (None, or the body of the response) and format
\* resumes: surl = result or url, then one self.irc.notify(repo, text) per
\* message, nothing awaited in between
Emit(t, result) ==
    LET surl == IF result \in {None, ""} THEN LongUrl(fmt.tasks[t].event) ELSE result
        msgs == Messages(fmt.tasks[t], surl)
    IN  /\ fmt' = [fmt EXCEPT !.tasks[t].pc = "done", !.tasks[t].shorten = result,
                              !.out = @ \o [i \in 1..Len(msgs) |->
                                        [task |-> t, tag |-> Repo, message |-> msgs[i]]]]
        /\ wire' = [c \in Conns |->
                        IF c \in protocols
                        THEN [wire[c] EXCEPT !.msg = @ \o Deliver(c, Repo, msgs)]
                        ELSE wire[c]]
        /\ lastNotify' = [n |-> lastNotify.n + Len(msgs), tag |-> Repo,
                          message |-> msgs[Len(msgs)], to |-> protocols]

\* the exception leaves shorten and format; the Deferred of __call__ fails
Raise(t) ==
    /\ fmt' = [fmt EXCEPT !.tasks[t].pc = "failed", !.tasks[t].shorten = "raised"]
    /\ UNCHANGED <<wire, lastNotify>>

formatVars == <<config, state, channelsToJoin, channelsJoined, saslTimeout, saslData,
                attemptedNick, signed, rcvd, timers, reactor, protocols, connector, delay,
                retries, tx, rx, hook>>

\* what agent.request ends with: a transport error, or a response with a
\* status code
RequestOutcomes == {"error", "200", "201", "404"}

\* Shortener.shorten resumes after 'await self.agent.request(...)'
AgentResponse(t, outcome) ==
    /\ Alive
    /\ t \in DOMAIN fmt.tasks /\ fmt.tasks[t].pc = "request"
    /\ IF outcome = "error" THEN Raise(t)
       ELSE IF outcome # "200" THEN Emit(t, None)
       ELSE /\ fmt' = [fmt EXCEPT !.tasks[t].pc = "readBody"]
            /\ UNCHANGED <<wire, lastNotify>>
    /\ UNCHANGED formatVars

\* what client.readBody ends with: an error, or the body: a link, nothing,
\* or bytes that are not ASCII
BodyOutcomes == {"error", "short_url", "", "U+00E9"}

\* Shortener.shorten resumes after 'await client.readBody(response)'
ReadBody(t, body) ==
    /\ Alive
    /\ t \in DOMAIN fmt.tasks /\ fmt.tasks[t].pc = "readBody"
    /\ IF body \in {"error", "U+00E9"} THEN Raise(t)
       ELSE Emit(t, body)
    /\ UNCHANGED formatVars

Events == {"push", "pull_request", "ping"}

\* the reactor runs a call that render_POST scheduled
Dispatch(event, doc) ==
    /\ Alive
    /\ Len(fmt.tasks) < MaxEvents
    /\ CommitFormatter_call(event, doc)
    /\ UNCHANGED <<ircVars, tx, rx, hook>>

\* a bot that has registered on its first connection and joined two of its
\* three channels
IrcRegistered ==
    /\ config = [BaseConfig EXCEPT !.sasl_user = <<>>, !.sasl_pass = <<>>]
    /\ state = [c \in Conns |-> IF c = 1 THEN "open" ELSE "unborn"]
    /\ channelsToJoin = [c \in Conns |-> <<>>]
    /\ channelsJoined = [c \in Conns |-> IF c = 1 THEN {"#general", "#b"} ELSE {}]
    /\ saslTimeout = [c \in Conns |-> 0]
    /\ saslData = [c \in Conns |-> NoSaslData]
    /\ attemptedNick = [c \in Conns |-> 0]
    /\ signed = [c \in Conns |-> c = 1]
    /\ wire = [c \in Conns |->
                 IF c = 1
                 THEN [reg |-> <<Out("NICK", <<"nick">>),
                                 Out("USER", <<"username", "realname">>)>>,
                       sasl |-> <<>>,
                       join |-> <<join(<<"general">>), In("JOIN", <<"#general">>),
                                  join(<<"#b", "key">>), In("JOIN", <<"#b">>),
                                  join(<<"#a">>)>>,
                       msg |-> <<>>]
                 ELSE [reg |-> <<>>, sasl |-> <<>>, join |-> <<>>, msg |-> <<>>]]
    /\ rcvd = [sasl |-> 0, kick |-> 0, nick |-> 0]
    /\ timers = {}
    /\ reactor = "running"
    /\ protocols = {1}
    /\ connector = "connected"
    /\ delay = initialDelay
    /\ retries = 0
    /\ lastNotify = [n |-> 0, tag |-> None, message |-> None, to |-> {}]

\* ---- C12 ----
Supported(task) ==
    /\ task.doc.complete
    /\ \/ task.event = "push"
       \/ task.event = "pull_request" /\ task.doc.action \in {"opened", "closed", "reopened"}

\* the irc.notify calls of a format coroutine, in order
OutOf(t) ==
    LET mine == SelectSeq(fmt.out, LAMBDA o : o.task = t)
    IN  [i \in 1..Len(mine) |-> mine[i].message]

\* C12 (as claimed): for every supported pull-request or push event, whatever
\* shorten ends with, the messages of the event are emitted, with the
\* original URL as their link unless shorten produced a non-empty result, and
\* shorten never raises into the formatter.
C12_ShortenerFallback ==
    \A t \in DOMAIN fmt.tasks :
        LET task == fmt.tasks[t]
        IN  (Supported(task) /\ task.shorten # "pending") =>
                /\ task.shorten # "raised"
                /\ task.pc = "done"
                /\ OutOf(t) = Messages(task, IF task.shorten \in {None, ""}
                                             THEN LongUrl(task.event) ELSE task.shorten)

\* ---- C13 ----
Finished(task) == task.pc \in {"done", "failed"}
TagsOf(t) == {fmt.out[i].tag : i \in {j \in DOMAIN fmt.out : fmt.out[j].task = t}}

\* text is message cut at its first line break
CutAtLineBreak(text, message) ==
    /\ Len(text) <= Len(message)
    /\ text = SubSeq(message, 1, Len(text))
    /\ \A i \in 1..Len(text) : text[i] # "\n"
    /\ Len(text) < Len(message) => message[Len(text) + 1] = "\n"

\* C13 (as claimed): for a push event whose payload has n commits, format
\* emits exactly 1 + min(n, 3) notifications, all tagged with the repository
\* name: the summary first, then one per commit for the first three commits
\* in payload order, each with the commit id cut to its first 7 characters
\* and the commit message cut at its first line break.
C13_PushFormatting ==
    \A t \in DOMAIN fmt.tasks :
        LET task == fmt.tasks[t]
            o == OutOf(t)
            k == IF task.doc.n < 3 THEN task.doc.n ELSE 3
        IN  (task.event = "push" /\ task.doc.complete /\ Finished(task)) =>
                /\ Len(o) = 1 + k
                /\ TagsOf(t) = {Repo}
                /\ o[1].kind = "push" /\ o[1].n = task.doc.n
                /\ \A i \in 1..k :
                        /\ o[i + 1].kind = "commit"
                        /\ Len(o[i + 1].id) <= 7
                        /\ o[i + 1].id = SubSeq(CommitId(i), 1, Len(o[i + 1].id))
                        /\ Len(o[i + 1].id) < 7 => o[i + 1].id = CommitId(i)
                        /\ CutAtLineBreak(o[i + 1].text, CommitMessage(i))

\* ---- C14 ----
\* C14 (as claimed): for a pull_request event, format emits exactly one
\* notification when the action is opened, closed or reopened, and for every
\* other action it emits none, raises no error and does not call the link
\* shortener.
C14_PullRequestFormatting ==
    \A t \in DOMAIN fmt.tasks :
        LET task == fmt.tasks[t]
        IN  (task.event = "pull_request" /\ task.doc.complete /\ Finished(task)) =>
                IF task.doc.action \in {"opened", "closed", "reopened"}
                THEN Len(OutOf(t)) = 1 /\ OutOf(t)[1].verb = task.doc.action
                ELSE Len(OutOf(t)) = 0 /\ task.pc = "done" /\ ~task.shortened

\* the connection lifecycle, driven by the factory and the reactor
Lifecycle ==
    \/ \E c \in Conns : connectionMade(c)
    \/ reconnect
    \/ \E c \in Conns : connectionLost(c)
    \/ \E c \in Conns : signedOn(c)

\* a deployment without SASL credentials: registration, channels, kicks and
\* notifications
IrcNext ==
    \/ Lifecycle
    \/ \E c \in Conns : \E ch \in PendingJoins(c) : joined(c, ch)
    \/ \E c \in Conns : \E ch \in channelsJoined[c], m \in {"die", "spam"} :
            kickedFrom(c, ch, m)
    \/ shutdown
    \/ \E tag \in Tags : factory_notify(tag, "text")

\* a deployment with SASL credentials: registration with capability
\* negotiation and authentication
AuthNext ==
    \/ Lifecycle
    \/ \E c \in Conns : alterCollidedNick(c)
    \/ \E t \in timers : nickTimer(t)
    \/ \E c \in Conns, sub \in {"NAK", "ACK", "LS"}, exts \in CapLists : irc_CAP(c, sub, exts)
    \/ \E c \in Conns, n \in 1..2, data \in Challenges : irc_AUTHENTICATE(c, n, data)
    \/ \E c \in Conns, numeric \in {"903", "905", "907"} : irc_903(c, numeric)
    \/ \E c \in Conns, numeric \in {"904", "906"} : irc_904(c, numeric)
    \/ \E t \in timers : _saslTimedout(t)

Init ==
    /\ IrcInitWith([BaseConfig EXCEPT !.sasl_user = <<>>, !.sasl_pass = <<>>])
    /\ SaslParked
    /\ HookParked
    /\ FmtParked

Next == IrcNext

Spec == Init /\ [][Next]_vars

AuthInit ==
    /\ IrcInitWith(BaseConfig)
    /\ SaslParked
    /\ HookParked
    /\ FmtParked

SpecAuth == AuthInit /\ [][AuthNext]_vars

(***************************************************************************)
(* Join sequencing, read off the log of JOIN and KICK lines of a           *)
(* connection.                                                             *)
(***************************************************************************)
NChannels == Len(ConfigChannels)
Configured(k) == ChannelName(ConfigChannels[k][1])
IsJoinFor(l, ch) == l.dir = ">>" /\ l.cmd = "JOIN" /\ l.arg[1] = ch
IsConfirmed(l) == l.dir = "<<" /\ l.cmd = "JOIN"
IsObserved(l, ch) == l.dir = "<<" /\ l.cmd \in {"JOIN", "KICK"} /\ l.arg[1] = ch

\* C1 as claimed: the queue is consumed in configuration order, so the JOIN
\* for a configured channel is never sent before a join confirmation or a
\* kick for the channel configured just before it has been observed.
C1_ConfigurationOrder ==
    \A c \in Conns : \A k \in 2..NChannels : \A i \in DOMAIN wire[c].join :
        IsJoinFor(wire[c].join[i], Configured(k)) =>
            \E j \in 1..(i - 1) : IsObserved(wire[c].join[j], Configured(k - 1))

\* C1 amended: the queue is consumed from its tail, one channel per joined
\* confirmation: the first JOIN sent is for the last configured channel, and
\* the JOIN for a configured channel is never sent before the JOIN for the
\* channel configured just after it has been sent and a joined confirmation
\* has been observed after that.
C1_ReverseOrder ==
    \A c \in Conns : \A i \in DOMAIN wire[c].join :
        /\ (/\ wire[c].join[i].dir = ">>"
            /\ \A j \in 1..(i - 1) : wire[c].join[j].dir # ">>")
                => IsJoinFor(wire[c].join[i], Configured(NChannels))
        /\ \A k \in 1..(NChannels - 1) :
                IsJoinFor(wire[c].join[i], Configured(k)) =>
                    \E j \in 1..(i - 1) :
                        /\ IsJoinFor(wire[c].join[j], Configured(k + 1))
                        /\ \E m \in (j + 1)..(i - 1) : IsConfirmed(wire[c].join[m])

\* the whole queue has been consumed on a connection that was also kicked
\* from a channel and sent the JOIN to come back
C1_Witness ==
    \E c \in Conns :
        /\ channelsToJoin[c] = <<>>
        /\ \A k \in 1..NChannels : \E i \in DOMAIN wire[c].join :
                IsJoinFor(wire[c].join[i], Configured(k))
        /\ \E i \in DOMAIN wire[c].join : wire[c].join[i].cmd = "KICK"
        /\ wire[c].join[Len(wire[c].join)].dir = ">>"

\* connectionLost has run, or the client has closed the connection with
\* transport.loseConnection()
Closed(c) == state[c] \in {"closing", "lost"}

(***************************************************************************)
(* Capability negotiation.  The reactor runs every DelayedCall that stays  *)
(* pending; what the server sends, and when, is up to the server.          *)
(***************************************************************************)
FairSpecAuth ==
    /\ SpecAuth
    /\ \A c \in Conns : \A k \in 1..(MaxSasl + MaxNick + 1) :
            /\ WF_vars(_saslTimedout([conn |-> c, fn |-> "_saslTimedout", arg |-> 0, id |-> k]))
            /\ \A a \in 0..MaxNick :
                    WF_vars(nickTimer([conn |-> c, fn |-> "setNick", arg |-> a, id |-> k]))

Negotiating(c) == Sent(c, "sasl", "CAP", <<"REQ", "sasl">>)
Concluded(c) == Sent(c, "sasl", "CAP", <<"END">>) \/ Closed(c)

\* C5: on every connection where credentials are configured and
\* 'CAP REQ :sasl' has been sent, eventually 'CAP END' is sent or the
\* connection is closed.
C5_NegotiationConcludes ==
    \A c \in Conns : Negotiating(c) ~> Concluded(c)

\* ---- C17, C18, C19 ----
NewSaslLines(c) == SubSeq(wire'[c].sasl, Len(wire[c].sasl) + 1, Len(wire'[c].sasl))
\* the last line the connection sent in the negotiation is CAP END
Ended(c) == wire[c].sasl # <<>> /\ wire[c].sasl[Len(wire[c].sasl)] = Out("CAP", <<"END">>)
SaslPending(c) == {t \in timers : t.conn = c /\ t.fn = "_saslTimedout"}
\* the connection handles an authentication message of the server; a step
\* that a CAP line of the server produces as well is not counted
AuthMessage(c) ==
    /\ \/ \E n \in 1..2, data \in Challenges : irc_AUTHENTICATE(c, n, data)
       \/ \E numeric \in {"903", "905", "907"} : irc_903(c, numeric)
       \/ \E numeric \in {"904", "906"} : irc_904(c, numeric)
    /\ ~\E sub \in {"NAK", "ACK", "LS"}, exts \in CapLists : irc_CAP(c, sub, exts)

\* C17: once negotiation has ended on a connection (CAP END sent), a further
\* authentication message of the server (AUTHENTICATE, 903, 904, 905, 906,
\* 907) is ignored: it sends no line, does not close the connection and
\* changes no SASL state.
C17_SingleTerminalTransition ==
    [][\A c \in Conns : (Ended(c) /\ AuthMessage(c)) =>
            /\ wire' = wire /\ state' = state
            /\ saslData' = saslData /\ saslTimeout' = saslTimeout /\ timers' = timers]_vars

\* C18: a CAP ACK whose capability list does not include 'sasl' ends the
\* negotiation as a CAP NAK does: one CAP END, no 'AUTHENTICATE PLAIN', no
\* SASL state and no timeout; only an ACK that includes 'sasl' sends
\* 'AUTHENTICATE PLAIN' and starts the timeout.
C18_AckWithoutSasl ==
    [][\A c \in Conns :
        /\ \A exts \in CapLists : (~HasSasl(exts) /\ irc_CAP(c, "ACK", exts)) =>
                /\ NewSaslLines(c) = <<Out("CAP", <<"END">>)>>
                /\ saslData' = saslData /\ saslTimeout' = saslTimeout /\ timers' = timers
        /\ ((\E i \in DOMAIN NewSaslLines(c) :
                    NewSaslLines(c)[i] = Out("AUTHENTICATE", <<"PLAIN">>))
            \/ SaslPending(c)' \ SaslPending(c) # {}) =>
                \E exts \in CapLists : HasSasl(exts) /\ irc_CAP(c, "ACK", exts)]_vars

\* C19: a terminal SASL transition on a connection (903, 907, 904, 905, 906,
\* or the timeout firing) leaves no SASL timeout pending for it, and
\* _saslTimedout has no effect on a connection that was closed after a
\* failure or an abort.
C19_TimeoutCancelled ==
    [][\A c \in Conns :
        /\ ((\E numeric \in {"903", "905", "907"} : irc_903(c, numeric))
            \/ (\E numeric \in {"904", "906"} : irc_904(c, numeric))
            \/ (\E t \in SaslPending(c) : _saslTimedout(t) /\ wire' # wire)) =>
                SaslPending(c)' = {}
        /\ (Closed(c) /\ \E t \in SaslPending(c) : _saslTimedout(t)) =>
                wire' = wire /\ saslTimeout' = saslTimeout]_vars

(***************************************************************************)
(* Disconnection.                                                          *)
(***************************************************************************)

\* C4: once a connection has been disconnected (connectionLost has run, or
\* the client closed it after SASL failure 904 or abort 906), nothing calls
\* sendLine on it any more: no pending timer and no later event.
C4_SilentAfterDisconnect ==
    [][\A c \in Conns : Closed(c) => wire'[c] = wire[c]]_vars

(***************************************************************************)
(* Channel filtering.                                                      *)
(***************************************************************************)
\* the filter entries configured for a joined channel
FilterEntries(channel) == {n \in DOMAIN config.filter : ChannelName(n) = channel}
Includes(n, tag) == \E i \in DOMAIN config.filter[n] : config.filter[n][i] = tag

\* the channels a connection sent a PRIVMSG to in this step
Delivered(c) ==
    {wire'[c].msg[i].arg[1] : i \in (Len(wire[c].msg) + 1)..Len(wire'[c].msg)}

\* C6: notify(tag, text) sends the message to exactly the joined channels
\* whose filter, if the channel has a filter entry, includes tag: a channel
\* with an entry that does not include tag receives nothing, a joined channel
\* without an entry receives every tag.
C6_FilteredDelivery ==
    [][lastNotify'.n # lastNotify.n =>
        \A c \in protocols :
            Delivered(c) = {channel \in channelsJoined[c] :
                                \A n \in FilterEntries(channel) : Includes(n, lastNotify'.tag)}]_vars

(***************************************************************************)
(* The live-connection set.                                                *)
(***************************************************************************)
Registered(c) == signed[c]
Disconnected(c) == state[c] = "lost"

\* C7: every connection in CommitBotFactory.protocols has completed
\* registration (signedOn was called on it) and has not been disconnected,
\* and a notification is sent only on such connections: never on one still in
\* the handshake or already disconnected.
C7_LiveConnections ==
    /\ [](\A c \in protocols : Registered(c) /\ state[c] = "open")
    /\ [][\A c \in Conns : wire'[c].msg # wire[c].msg =>
                Registered(c) /\ state[c] = "open"]_vars

\* a notification went out on a live connection after an earlier connection,
\* registered and with channels joined, had been disconnected and left the set
C7_Witness ==
    \E c, d \in Conns :
        /\ Disconnected(c) /\ Registered(c) /\ channelsJoined[c] # {}
        /\ c \notin protocols /\ wire[c].msg = <<>>
        /\ d \in protocols /\ wire[d].msg # <<>>

(***************************************************************************)
(* Reconnect backoff.                                                      *)
(***************************************************************************)
\* connection attempts that fail, are lost and succeed
BackoffNext ==
    \/ Lifecycle
    \/ clientConnectionFailed

SpecBackoff == Init /\ [][BackoffNext]_vars

Retried == retries' = retries + 1
RegisteredNow == \E c \in Conns : signed'[c] /\ ~signed[c]

\* C8 as claimed: over consecutive failed or terminated attempts the
\* reconnect delays are non-decreasing and never exceed the cap, and a
\* successful registration resets the delay to its minimum.
C8_MonotoneCapped ==
    [][/\ Retried => delay' <= maxDelay /\ (retries > 0 => delay' >= delay)
       /\ RegisteredNow => delay' = initialDelay /\ retries' = 0]_vars

\* the value the jitter of the next delay is drawn around
Centre == Min((delay * factor) \div 1000, maxDelay)

\* C8 amended: each reconnect delay is drawn (jitter) around
\* min(previous delay * factor, cap); that centre never exceeds the cap and
\* is not below the previous delay unless that delay was above the cap; a
\* successful registration resets the delay to the initial delay and the
\* retry count to zero, so the next delay is drawn around initial * factor.
C8_JitteredBackoff ==
    [][/\ Retried =>
            /\ delay' \in normalvariate(Centre)
            /\ Centre <= maxDelay
            /\ delay <= maxDelay => Centre >= delay
       /\ RegisteredNow => delay' = initialDelay /\ retries' = 0
       /\ Retried /\ retries = 0 =>
            delay' \in normalvariate((initialDelay * factor) \div 1000)]_vars

\* a connection registered and was lost, and the attempts after it failed
\* until the delay was drawn above the cap
C8_Witness ==
    /\ \E c \in Conns : signed[c] /\ state[c] = "lost"
    /\ retries >= 8
    /\ delay > maxDelay

\* events formatted while the connection goes on
FormatInit ==
    /\ IrcRegistered
    /\ SaslParked
    /\ HookParked
    /\ FmtParked

FormatNext ==
    \/ \E e \in Events : \E doc \in Documents(e) : Dispatch(e, doc)
    \/ \E t \in 1..MaxEvents, outcome \in RequestOutcomes : AgentResponse(t, outcome)
    \/ \E t \in 1..MaxEvents, body \in BodyOutcomes : ReadBody(t, body)
    \/ \E c \in Conns : \E ch \in PendingJoins(c) : joined(c, ch)
    \/ \E c \in Conns : connectionLost(c)

SpecFormat == FormatInit /\ [][FormatNext]_vars

\* ---- C20 ----
NewOut == SubSeq(fmt'.out, Len(fmt.out) + 1, Len(fmt'.out))
NewMessages == [i \in 1..Len(NewOut) |-> NewOut[i].message]
NewLines(c) == SubSeq(wire'[c].msg, Len(wire[c].msg) + 1, Len(wire'[c].msg))
\* the messages among lines that went to a channel, in order
ToChannel(lines, channel) ==
    LET mine == SelectSeq(lines, LAMBDA l : l.arg[1] = channel)
    IN  [i \in 1..Len(mine) |-> mine[i].arg[2]]
Expected(task) ==
    IF task.event = "push" THEN 1 + (IF task.doc.n < 3 THEN task.doc.n ELSE 3) ELSE 1

\* C20: with several events being formatted and their shortener calls
\* completing in any order, all notifications of one event are handed to
\* factory.notify in one step, after its shortener await: a step that
\* notifies or sends a PRIVMSG belongs to one event, carries all of its
\* notifications, and puts them, complete and in order, into every channel
\* that receives any of them, on live connections and joined channels only;
\* so the notifications of two events are never interleaved.
C20_AtomicFanOut ==
    /\ [](\A i, j, k \in DOMAIN fmt.out :
            (i < j /\ j < k /\ fmt.out[i].task = fmt.out[k].task) =>
                fmt.out[j].task = fmt.out[i].task)
    /\ [][(fmt'.out # fmt.out \/ \E c \in Conns : wire'[c].msg # wire[c].msg) =>
            \E t \in DOMAIN fmt.tasks :
                /\ fmt.tasks[t].pc \in {"request", "readBody"} /\ fmt'.tasks[t].pc = "done"
                /\ \A u \in DOMAIN fmt.tasks \ {t} : fmt'.tasks[u] = fmt.tasks[u]
                /\ \A i \in DOMAIN NewOut : NewOut[i].task = t
                /\ Len(NewOut) = Expected(fmt.tasks[t])
                /\ \A i \in DOMAIN fmt.out : fmt.out[i].task # t
                /\ protocols' = protocols /\ channelsJoined' = channelsJoined
                /\ \A c \in Conns :
                        /\ c \notin protocols => NewLines(c) = <<>>
                        /\ \A i \in DOMAIN NewLines(c) :
                                /\ NewLines(c)[i].arg[1] \in channelsJoined[c]
                                /\ ToChannel(NewLines(c), NewLines(c)[i].arg[1]) = NewMessages]_vars

\* two pushes were being formatted at once, the shortener answered the second
\* first, and both have been delivered
C20_Witness ==
    /\ Len(fmt.tasks) = 2
    /\ \A t \in 1..2 : fmt.tasks[t].pc = "done" /\ Len(OutOf(t)) > 1
    /\ fmt.out[1].task = 2
    /\ Len(wire[1].msg) >= 2 * Len(fmt.out)

\* ---- C16 ----
\* a bot with SASL credentials whose first connection was refused the
\* capability, registered and joined its channels: kicks, disconnects, a
\* second connection whose authentication fails, is aborted or times out,
\* webhook requests that are answered with an error, and a push whose
\* shortener call fails
ShutdownInit ==
    /\ config = BaseConfig
    /\ state = [c \in Conns |-> IF c = 1 THEN "open" ELSE "unborn"]
    /\ channelsToJoin = [c \in Conns |-> <<>>]
    /\ channelsJoined = [c \in Conns |-> IF c = 1 THEN {"#general", "#b", "#a"} ELSE {}]
    /\ saslTimeout = [c \in Conns |-> 0]
    /\ saslData = [c \in Conns |-> NoSaslData]
    /\ attemptedNick = [c \in Conns |-> 0]
    /\ signed = [c \in Conns |-> c = 1]
    /\ wire = [c \in Conns |->
                 IF c = 1
                 THEN [reg |-> <<Out("NICK", <<"nick">>),
                                 Out("USER", <<"username", "realname">>)>>,
                       sasl |-> <<Out("CAP", <<"REQ", "sasl">>), Out("CAP", <<"END">>)>>,
                       join |-> <<join(<<"general">>), In("JOIN", <<"#general">>),
                                  join(<<"#b", "key">>), In("JOIN", <<"#b">>),
                                  join(<<"#a">>), In("JOIN", <<"#a">>)>>,
                       msg |-> <<>>]
                 ELSE [reg |-> <<>>, sasl |-> <<>>, join |-> <<>>, msg |-> <<>>]]
    /\ rcvd = [sasl |-> 1, kick |-> 0, nick |-> 0]
    /\ timers = {}
    /\ reactor = "running"
    /\ protocols = {1}
    /\ connector = "connected"
    /\ delay = initialDelay
    /\ retries = 0
    /\ lastNotify = [n |-> 0, tag |-> None, message |-> None, to |-> {}]
    /\ SaslParked
    /\ HookParked
    /\ FmtParked

ShutdownNext ==
    \/ Lifecycle
    \/ \E c \in Conns : irc_CAP(c, "ACK", <<"sasl">>)
    \/ \E c \in Conns, numeric \in {"904", "906"} : irc_904(c, numeric)
    \/ \E t \in timers : _saslTimedout(t)
    \/ \E c \in Conns : \E ch \in channelsJoined[c], m \in {"die", "spam"} :
            kickedFrom(c, ch, m)
    \/ shutdown
    \/ \E c \in ContentTypes :
            /\ Alive
            /\ HookAnswer([event |-> "push", sig |-> NoHeader, ct |-> c, body |-> <<>>])
    \/ HookFinish
    \/ /\ fmt.tasks = <<>>
       /\ Dispatch("push", [complete |-> TRUE, action |-> None, n |-> 1, forced |-> FALSE])
    \/ \E t \in DOMAIN fmt.tasks, o \in RequestOutcomes : AgentResponse(t, o)
    \/ \E t \in DOMAIN fmt.tasks, b \in BodyOutcomes : ReadBody(t, b)

SpecShutdown == ShutdownInit /\ [][ShutdownNext]_vars

NewJoinLines(c) == SubSeq(wire'[c].join, Len(wire[c].join) + 1, Len(wire'[c].join))
KickedNow(c) == NewJoinLines(c) # <<>> /\ NewJoinLines(c)[1].cmd = "KICK"

\* C16: the reactor is stopped only by a kick with the reason 'die', which
\* removes the channel from the joined set and sends no rejoin; a kick with
\* another reason sends a rejoin for the channel and does not stop the
\* reactor; no webhook error, SASL failure, abort or timeout, shortener
\* failure or disconnect stops it.
C16_ShutdownOnlyOnDie ==
    [][/\ (reactor = "running" /\ reactor' # "running") =>
            /\ reactor' = "stopping"
            /\ \E c \in Conns : KickedNow(c) /\ NewJoinLines(c)[1].arg[2] = "die"
       /\ (reactor # "stopped" /\ reactor' = "stopped") => reactor = "stopping"
       /\ \A c \in Conns : KickedNow(c) =>
            LET channel == NewJoinLines(c)[1].arg[1] IN
            /\ channel \notin channelsJoined'[c]
            /\ IF NewJoinLines(c)[1].arg[2] = "die"
               THEN reactor' = "stopping" /\ Len(NewJoinLines(c)) = 1
               ELSE /\ reactor' = reactor
                    /\ NewJoinLines(c) = <<NewJoinLines(c)[1], Out("JOIN", <<channel>>)>>]_vars

\* the process ran through a failed authentication, a disconnect and a failed
\* shortener call, and is stopping after a kick with the reason 'die'
C16_Witness ==
    /\ reactor = "stopping"
    /\ \E c \in Conns :
            /\ wire[c].join # <<>>
            /\ wire[c].join[Len(wire[c].join)].cmd = "KICK"
            /\ wire[c].join[Len(wire[c].join)].arg[2] = "die"
    /\ \E c \in Conns : state[c] = "lost"
    /\ \E t \in DOMAIN fmt.tasks : fmt.tasks[t].pc = "failed"

\* ---- C21 ----
\* a deployment without SASL credentials: registration, disconnects and
\* reconnections, join confirmations, and kicks that the bot answers with a
\* rejoin
JoinNext ==
    \/ Lifecycle
    \/ \E c \in Conns : \E ch \in PendingJoins(c) : joined(c, ch)
    \/ \E c \in Conns : \E ch \in channelsJoined[c] : kickedFrom(c, ch, "spam")

SpecJoin == Init /\ [][JoinNext]_vars

\* the server confirms every JOIN it is sent
FairSpecJoin ==
    /\ SpecJoin
    /\ \A c \in Conns : \A k \in 1..NChannels : WF_vars(joined(c, Configured(k)))

AllConfigured == {Configured(k) : k \in 1..NChannels}
Kicked(c) == \E i \in DOMAIN wire[c].join : wire[c].join[i].cmd = "KICK"
JoinsSent(c, ch) == Count(wire[c].join, LAMBDA l : IsJoinFor(l, ch))
AllJoined(c) ==
    /\ channelsToJoin[c] = <<>>
    /\ channelsJoined[c] = AllConfigured
    /\ \A ch \in AllConfigured : JoinsSent(c, ch) = 1
ConfirmedNow(c) == NewJoinLines(c) # <<>> /\ IsConfirmed(NewJoinLines(c)[1])

\* C21: on a connection that has signed on, stays connected and is not
\* kicked, with the server confirming every JOIN, eventually the join queue
\* is empty, every configured channel is joined and exactly one JOIN was sent
\* for each; until then at most one JOIN is unconfirmed and none is sent
\* twice; and only signing on, a joined confirmation or a kick sends a JOIN
\* or takes a channel from the queue, so the queue stands still while a JOIN
\* stays unconfirmed.
C21_JoinProgress ==
    /\ \A c \in Conns :
            (signed[c] /\ state[c] = "open") ~>
                (state[c] # "open" \/ ~Alive \/ Kicked(c) \/ AllJoined(c))
    /\ [](\A c \in Conns : ~Kicked(c) =>
            /\ Cardinality(PendingJoins(c)) <= 1
            /\ \A ch \in AllConfigured : JoinsSent(c, ch) <= 1)
    /\ [][\A c \in Conns :
            ((\E i \in DOMAIN NewJoinLines(c) : NewJoinLines(c)[i].dir = ">>")
             \/ (state[c] = "open" /\ channelsToJoin'[c] # channelsToJoin[c])) =>
                \/ ~signed[c] /\ signed'[c]
                \/ ConfirmedNow(c)
                \/ KickedNow(c)]_vars

\* a connection signed on, was never kicked, and has joined every configured
\* channel with one JOIN each
C21_Witness ==
    \E c \in Conns :
        /\ signed[c] /\ state[c] = "open" /\ ~Kicked(c)
        /\ AllJoined(c)
        /\ Len(wire[c].join) = 2 * NChannels

\* the webhook together with the formatter it hands its events to
RelayInit ==
    /\ IrcRegistered
    /\ SaslParked
    /\ FmtParked
    /\ HookInit

RelayNext ==
    \/ HookNext
    \/ \E t \in 1..MaxEvents, outcome \in RequestOutcomes : AgentResponse(t, outcome)
    \/ \E t \in 1..MaxEvents, body \in BodyOutcomes : ReadBody(t, body)

SpecRelay == RelayInit /\ [][RelayNext]_vars

\* C15: every POST answered 200 'OK' schedules exactly one formatter call for
\* its event and every POST answered 400, 403 or 415 schedules none; the
\* response is produced in a step in which no formatter runs, no link is
\* shortened and nothing is delivered, and the formatter runs only by
\* consuming a call that an answered request scheduled, once per call.
C15_AsyncHandOff ==
    [][/\ (hook.phase = "idle" /\ hook'.phase = "answered") =>
            /\ hook'.resp.code = OK =>
                    /\ hook'.resp.text = "OK"
                    /\ Len(hook'.calls) = Len(hook.calls) + 1
                    /\ SubSeq(hook'.calls, 1, Len(hook.calls)) = hook.calls
                    /\ hook'.calls[Len(hook'.calls)].event = hook'.req.event
            /\ hook'.resp.code \in {BAD_REQUEST, FORBIDDEN, UNSUPPORTED_MEDIA_TYPE} =>
                    hook'.calls = hook.calls
            /\ fmt' = fmt /\ wire' = wire
       /\ Len(fmt'.tasks) > Len(fmt.tasks) =>
            /\ hook.calls # <<>> /\ hook'.calls = Tail(hook.calls)
            /\ Len(fmt'.tasks) = Len(fmt.tasks) + 1
            /\ fmt'.tasks[Len(fmt'.tasks)].event = Head(hook.calls).event
            /\ hook'.phase = hook.phase
       /\ (fmt'.out # fmt.out \/ wire' # wire) => hook' = hook]_vars

\* the event of a POST answered 200 has been formatted with a shortened link
\* and delivered to a channel
C15_Witness ==
    /\ Len(fmt.tasks) = 1 /\ fmt.tasks[1].shorten = "short_url"
    /\ fmt.out # <<>>
    /\ wire[1].msg # <<>>
    /\ hook.calls = <<>>

SaslHarnessInit ==
    /\ IrcParked
    /\ HookParked
    /\ FmtParked
    /\ SaslInit

SpecSasl == SaslHarnessInit /\ [][SaslNext]_vars

HookResourceInit ==
    /\ IrcParked
    /\ SaslParked
    /\ FmtParked
    /\ HookInit

SpecHook == HookResourceInit /\ [][HookNext]_vars

====
